---------------------------- MODULE Spec2Model ----------------------------
(***************************************************************************)
(* A model of indoxMiner/loader.py: DocumentType.from_file, the            *)
(* DocumentProcessor constructor, the format dispatch of _get_elements,    *)
(* the element filter, the page aggregation, the default word packer and   *)
(* the concurrent fan-out of DocumentProcessor.process.                    *)
(*                                                                         *)
(* Python strings are modelled as sequences of one-character strings, so   *)
(* that lower(), startswith(), endswith(), split(), strip() and the        *)
(* pathlib name/suffix computations are computed, not assumed.             *)
(***************************************************************************)
EXTENDS Integers, Sequences, FiniteSets, TLC

(***************************************************************************)
(* Python string primitives over character sequences.                      *)
(***************************************************************************)

\* A Python str: a sequence of one-character strings.
Str == Seq(STRING)

\* str.lower() on one character (ASCII letters).
UpperToLower ==
    [A |-> "a", B |-> "b", C |-> "c", D |-> "d", E |-> "e", F |-> "f",
     G |-> "g", H |-> "h", I |-> "i", J |-> "j", K |-> "k", L |-> "l",
     M |-> "m", N |-> "n", O |-> "o", P |-> "p", Q |-> "q", R |-> "r",
     S |-> "s", T |-> "t", U |-> "u", V |-> "v", W |-> "w", X |-> "x",
     Y |-> "y", Z |-> "z"]

LowerChar(c) == IF c \in DOMAIN UpperToLower THEN UpperToLower[c] ELSE c

\* str.lower()
Lower[s \in Str] == [i \in 1..Len(s) |-> LowerChar(s[i])]

\* str.startswith(p) / str.endswith(p); the tuple forms take a set.
StartsWith[s \in Str, p \in Str] == Len(p) <= Len(s) /\ SubSeq(s, 1, Len(p)) = p

EndsWith[s \in Str, p \in Str] == Len(p) <= Len(s) /\ SubSeq(s, Len(s) - Len(p) + 1, Len(s)) = p

StartsWithAny(s, ps) == \E p \in ps : StartsWith[s, p]

EndsWithAny(s, ps) == \E p \in ps : EndsWith[s, p]

\* The characters str.split() and str.strip() treat as whitespace.
Whitespace == {" ", "\n", "\t"}

SetMin(S) == CHOOSE x \in S : \A y \in S : x <= y

SetMax(S) == CHOOSE x \in S : \A y \in S : y <= x

\* str.split(sep) for the one-character separators in cs: empty pieces are kept.
SplitAt[s \in Str, cs \in SUBSET STRING] ==
    LET hits == {i \in 1..Len(s) : s[i] \in cs}
    IN  IF hits = {} THEN <<s>>
        ELSE LET i == SetMin(hits)
             IN  <<SubSeq(s, 1, i - 1)>> \o SplitAt[SubSeq(s, i + 1, Len(s)), cs]

NonEmptyStr(w) == w # <<>>

\* str.split() with no argument: runs of whitespace separate, no empty pieces.
Words[s \in Str] == SelectSeq(SplitAt[s, Whitespace], NonEmptyStr)

\* str.strip()
Strip[s \in Str] ==
    LET keep == {i \in 1..Len(s) : s[i] \notin Whitespace}
    IN  IF keep = {} THEN <<>> ELSE SubSeq(s, SetMin(keep), SetMax(keep))

\* str.lstrip(c) for a single character c.
LStripChar[s \in Str, c \in STRING] ==
    LET keep == {i \in 1..Len(s) : s[i] # c}
    IN  IF keep = {} THEN <<>> ELSE SubSeq(s, SetMin(keep), Len(s))

\* str.replace("\n", " ")
ReplaceNewlines[s \in Str] == [i \in 1..Len(s) |-> IF s[i] = "\n" THEN " " ELSE s[i]]

\* sep.join(parts)
Join[parts \in Seq(Str), sep \in Str] ==
    IF parts = <<>> THEN <<>>
    ELSE IF Len(parts) = 1 THEN parts[1]
    ELSE parts[1] \o sep \o Join[Tail(parts), sep]

(***************************************************************************)
(* pathlib.Path(p).name and .suffix.                                       *)
(***************************************************************************)

IsPathPart(part) == part # <<>> /\ part # <<".">>

\* The components pathlib keeps: empty ones (doubled or trailing slashes)
\* and "." are dropped.
PathParts[p \in Str] == SelectSeq(SplitAt[p, {"/"}], IsPathPart)

\* Path(p).name: the last component, "" when there is none.
LastPart[parts \in Seq(Str)] ==
    IF parts = <<>> THEN <<>> ELSE parts[Len(parts)]

PathName[p \in Str] == LastPart[PathParts[p]]

\* Path(p).suffix: from the last dot of the name, unless that dot is the
\* first or the last character of the name.
SuffixOfName[name \in Str] ==
    LET dots == {i \in 1..Len(name) : name[i] = "."}
    IN  IF dots = {} THEN <<>>
        ELSE LET i == SetMax(dots)
             IN  IF 1 < i /\ i < Len(name) THEN SubSeq(name, i, Len(name)) ELSE <<>>

PathSuffix[p \in Str] == SuffixOfName[PathName[p]]

(***************************************************************************)
(* DocumentType and DocumentType.from_file.                                *)
(***************************************************************************)

\* The enumeration: member name |-> value.
DocumentType ==
    [BMP      |-> <<"b","m","p">>,
     CSV      |-> <<"c","s","v">>,
     DOC      |-> <<"d","o","c">>,
     DOCX     |-> <<"d","o","c","x">>,
     EML      |-> <<"e","m","l">>,
     EPUB     |-> <<"e","p","u","b">>,
     HEIC     |-> <<"h","e","i","c">>,
     HTML     |-> <<"h","t","m","l">>,
     JPEG     |-> <<"j","p","e","g">>,
     JPG      |-> <<"j","p","g">>,
     MARKDOWN |-> <<"m","d">>,
     MSG      |-> <<"m","s","g">>,
     ODT      |-> <<"o","d","t">>,
     ORG      |-> <<"o","r","g">>,
     P7S      |-> <<"p","7","s">>,
     PDF      |-> <<"p","d","f">>,
     PNG      |-> <<"p","n","g">>,
     PPT      |-> <<"p","p","t">>,
     PPTX     |-> <<"p","p","t","x">>,
     RST      |-> <<"r","s","t">>,
     RTF      |-> <<"r","t","f">>,
     TIFF     |-> <<"t","i","f","f">>,
     TEXT     |-> <<"t","x","t">>,
     TSV      |-> <<"t","s","v">>,
     XLS      |-> <<"x","l","s">>,
     XLSX     |-> <<"x","l","s","x">>,
     XML      |-> <<"x","m","l">>]

\* The outcome of from_file when the extension names no member.
ValueError == "ValueError"

UrlPrefixes ==
    {<<"h","t","t","p",":","/","/">>, <<"h","t","t","p","s",":","/","/">>,
     <<"w","w","w",".">>}

\* The enum lookup cls(extension): the member with that value, or ValueError.
EnumLookup[extension \in Str] ==
    IF \E m \in DOMAIN DocumentType : DocumentType[m] = extension
    THEN CHOOSE m \in DOMAIN DocumentType : DocumentType[m] = extension
    ELSE ValueError

\* from_file with a fallback to TEXT in place of the ValueError.
FromFileDefaultsToText(file_path) ==
    IF StartsWithAny(Lower[file_path], UrlPrefixes) THEN "HTML"
    ELSE LET suffix == LStripChar[Lower[PathSuffix[file_path]], "."]
             extension == IF suffix = <<"j","p","g">> THEN <<"j","p","e","g">> ELSE suffix
         IN  IF EnumLookup[extension] = ValueError THEN "TEXT" ELSE EnumLookup[extension]

\* DocumentType.from_file: the member name, or ValueError when it raises.
FromFile(file_path) ==
    IF StartsWithAny(Lower[file_path], UrlPrefixes) THEN "HTML"
    ELSE LET suffix == LStripChar[Lower[PathSuffix[file_path]], "."]
             extension == IF suffix = <<"j","p","g">> THEN <<"j","p","e","g">> ELSE suffix
         IN  EnumLookup[extension]

\* DocumentProcessor._get_filetype, applied to the cached document type.
MimeTypes ==
    [PDF      |-> "application/pdf",
     XLSX     |-> "application/vnd.openxmlformats-officedocument.spreadsheetml.sheet",
     XLS      |-> "application/vnd.ms-excel",
     DOCX     |-> "application/vnd.openxmlformats-officedocument.wordprocessingml.document",
     DOC      |-> "application/msword",
     PPTX     |-> "application/vnd.openxmlformats-officedocument.presentationml.presentation",
     PPT      |-> "application/vnd.ms-powerpoint",
     HTML     |-> "text/html",
     TEXT     |-> "text/plain",
     MARKDOWN |-> "text/markdown",
     XML      |-> "application/xml",
     CSV      |-> "text/csv",
     TSV      |-> "text/tab-separated-values",
     RTF      |-> "application/rtf",
     EPUB     |-> "application/epub+zip",
     MSG      |-> "application/vnd.ms-outlook",
     EML      |-> "message/rfc822",
     PNG      |-> "image/png",
     JPEG     |-> "image/jpeg",
     TIFF     |-> "image/tiff",
     BMP      |-> "image/bmp",
     HEIC     |-> "image/heic"]

GetFiletype(doc_type) ==
    IF doc_type \in DOMAIN MimeTypes THEN MimeTypes[doc_type]
    ELSE "application/octet-stream"

(***************************************************************************)
(* The format dispatch of DocumentProcessor._get_elements.                 *)
(***************************************************************************)

ImageSuffixes ==
    {<<".","p","n","g">>, <<".","j","p","g">>, <<".","j","p","e","g">>,
     <<".","t","i","f","f">>, <<".","b","m","p">>, <<".","h","e","i","c">>}

PdfSuffix == <<".","p","d","f">>

SpreadsheetSuffixes == {<<".","x","l","s","x">>, <<".","x","l","s">>}

WebPrefixes == {<<"w","w","w">>, <<"h","t","t","p">>}

HtmlSuffix == <<".","h","t","m","l">>

EmailSuffixes == {<<".","e","m","l">>, <<".","m","s","g">>}

WordSuffixes == {<<".","d","o","c","x">>, <<".","d","o","c">>}

OfficeSuffixes == WordSuffixes \cup {<<".","p","p","t","x">>, <<".","p","p","t">>}

SchemeChars ==
    {"a","b","c","d","e","f","g","h","i","j","k","l","m","n","o","p","q","r",
     "s","t","u","v","w","x","y","z","0","1","2","3","4","5","6","7","8","9",
     "+","-","."}

Digits == {"0","1","2","3","4","5","6","7","8","9"}

\* Whether urlparse(p).scheme is non-empty: a letter, then scheme characters,
\* up to the first colon.
HasScheme[p \in Str] ==
    \E i \in 2..Len(p) :
        /\ p[i] = ":"
        /\ \A j \in 1..(i - 1) : LowerChar(p[j]) \in SchemeChars
        /\ LowerChar(p[1]) \notin (Digits \cup {"+", "-", "."})

HttpsPrefix == <<"h","t","t","p","s",":","/","/">>

\* The dispatch with the generic image branch tried before the OCR branch.
GetElementsCallImageBeforeOcr(file_path, config) ==
    LET lower == Lower[file_path]
        parts == SplitAt[lower, {"."}]
    IN  IF EndsWithAny(lower, ImageSuffixes)
        THEN [strategy |-> "image", arg |-> file_path, option |-> <<>>]
        ELSE IF EndsWithAny(lower, ImageSuffixes) /\ config.ocr_for_images
        THEN [strategy |-> "ocr", arg |-> file_path, option |-> <<>>]
        ELSE IF EndsWith[lower, PdfSuffix]
        THEN [strategy |-> "pdf", arg |-> file_path,
              option |-> <<IF config.hi_res_pdf THEN "hi_res" ELSE "fast",
                           IF config.infer_tables THEN "tables" ELSE "no_tables">>]
        ELSE IF EndsWithAny(lower, SpreadsheetSuffixes)
        THEN [strategy |-> "spreadsheet", arg |-> file_path, option |-> <<>>]
        ELSE IF StartsWithAny(lower, WebPrefixes) \/ EndsWith[lower, HtmlSuffix]
        THEN [strategy |-> "web",
              arg |-> IF HasScheme[file_path] THEN file_path ELSE HttpsPrefix \o file_path,
              option |-> <<>>]
        ELSE IF EndsWithAny(lower, EmailSuffixes)
        THEN [strategy |-> "email", arg |-> file_path, option |-> <<>>]
        ELSE IF EndsWithAny(lower, OfficeSuffixes)
        THEN [strategy |-> "office", arg |-> file_path,
              option |-> IF EndsWithAny(lower, WordSuffixes)
                         THEN <<"d","o","c","x">> ELSE <<"p","p","t","x">>]
        ELSE [strategy |-> "generic", arg |-> file_path, option |-> parts[Len(parts)]]

\* The adapter call _get_elements makes for file_path: which strategy, and
\* the argument handed to it.  The branches are tried in the source's order.
GetElementsCall(file_path, config) ==
    LET lower == Lower[file_path]
        parts == SplitAt[lower, {"."}]
    IN  IF EndsWithAny(lower, ImageSuffixes) /\ config.ocr_for_images
        THEN [strategy |-> "ocr", arg |-> file_path, option |-> <<>>]
        ELSE IF EndsWith[lower, PdfSuffix]
        THEN [strategy |-> "pdf", arg |-> file_path,
              option |-> <<IF config.hi_res_pdf THEN "hi_res" ELSE "fast",
                           IF config.infer_tables THEN "tables" ELSE "no_tables">>]
        ELSE IF EndsWithAny(lower, SpreadsheetSuffixes)
        THEN [strategy |-> "spreadsheet", arg |-> file_path, option |-> <<>>]
        ELSE IF StartsWithAny(lower, WebPrefixes) \/ EndsWith[lower, HtmlSuffix]
        THEN [strategy |-> "web",
              arg |-> IF HasScheme[file_path] THEN file_path ELSE HttpsPrefix \o file_path,
              option |-> <<>>]
        ELSE IF EndsWithAny(lower, ImageSuffixes)
        THEN [strategy |-> "image", arg |-> file_path, option |-> <<>>]
        ELSE IF EndsWithAny(lower, EmailSuffixes)
        THEN [strategy |-> "email", arg |-> file_path, option |-> <<>>]
        ELSE IF EndsWithAny(lower, OfficeSuffixes)
        THEN [strategy |-> "office", arg |-> file_path,
              option |-> IF EndsWithAny(lower, WordSuffixes)
                         THEN <<"d","o","c","x">> ELSE <<"p","p","t","x">>]
        ELSE [strategy |-> "generic", arg |-> file_path, option |-> parts[Len(parts)]]

(***************************************************************************)
(* Elements and DocumentProcessor._filter_elements.                        *)
(*                                                                         *)
(* An element is a record: has_text says whether the object has a text     *)
(* attribute at all (text is then its value), category, id, parent_id      *)
(* ("None" when it has no parent), page_number, and has_html for a         *)
(* metadata.text_as_html that is not None.                                 *)
(***************************************************************************)

ElementType ==
    [has_text : BOOLEAN, text : Str, category : STRING, id : STRING,
     parent_id : STRING, page_number : Int, has_html : BOOLEAN]

ReferencesText == <<"r","e","f","e","r","e","n","c","e","s">>

\* hasattr(el, 'text') and el.text and el.text.strip()
HasNonBlankText(el) == el.has_text /\ el.text # <<>> /\ Strip[el.text] # <<>>

\* getattr(el, 'category', '') != "Header"
NotHeader(el) == el.category # "Header"

\* el.text and el.text.strip().lower() == "references" and category == "Title"
IsReferenceTitle(el) ==
    /\ el.text # <<>>
    /\ Lower[Strip[el.text]] = ReferencesText
    /\ el.category = "Title"

\* The reference step taking the last "References" title, not the first.
RemoveReferencesLastTitle(filtered) ==
    IF \E i \in 1..Len(filtered) : ~filtered[i].has_text THEN filtered
    ELSE LET reference_titles == SelectSeq(filtered, IsReferenceTitle)
         IN  IF reference_titles = <<>> THEN filtered
             ELSE LET reference_id == reference_titles[Len(reference_titles)].id
                  IN  SelectSeq(filtered, LAMBDA el : el.parent_id # reference_id)

\* The try block of the reference step.  Reading el.text of an element that
\* has no text attribute raises; the except clause leaves filtered as it was.
RemoveReferences(filtered) ==
    IF \E i \in 1..Len(filtered) : ~filtered[i].has_text THEN filtered
    ELSE LET reference_titles == SelectSeq(filtered, IsReferenceTitle)
         IN  IF reference_titles = <<>> THEN filtered
             ELSE LET reference_id == reference_titles[1].id
                  IN  SelectSeq(filtered, LAMBDA el : el.parent_id # reference_id)

FilterElements(elements, config) ==
    IF elements = <<>> THEN elements
    ELSE LET nonempty == IF config.filter_empty_elements
                         THEN SelectSeq(elements, HasNonBlankText) ELSE elements
             noheaders == IF config.remove_headers
                          THEN SelectSeq(nonempty, NotHeader) ELSE nonempty
         IN  IF config.remove_references THEN RemoveReferences(noheaders) ELSE noheaders

(***************************************************************************)
(* DocumentProcessor._combine_elements_by_page.                            *)
(***************************************************************************)

\* sorted(elements, key=get_page_number): Python's sort is stable.  Built as
\* an insertion sort that places each element after those already placed
\* whose page number is not larger.
InsertByPage[front \in Seq(ElementType), el \in ElementType] ==
    LET k == Cardinality({i \in 1..Len(front) : front[i].page_number <= el.page_number})
    IN  SubSeq(front, 1, k) \o <<el>> \o SubSeq(front, k + 1, Len(front))

SortedByPage[elements \in Seq(ElementType)] ==
    IF elements = <<>> THEN <<>>
    ELSE InsertByPage[SortedByPage[SubSeq(elements, 1, Len(elements) - 1)],
                      elements[Len(elements)]]

\* itertools.groupby: maximal runs of consecutive elements with equal keys.
GroupByPage[elements \in Seq(ElementType)] ==
    IF elements = <<>> THEN <<>>
    ELSE LET differ == {i \in 1..Len(elements) : elements[i].page_number # elements[1].page_number}
             n == IF differ = {} THEN Len(elements) ELSE SetMin(differ) - 1
         IN  <<SubSeq(elements, 1, n)>> \o GroupByPage[SubSeq(elements, n + 1, Len(elements))]

\* hasattr(el, 'text') and el.text
HasText(el) == el.has_text /\ el.text # <<>>

\* The text of one page group: join, replace newlines, strip.
PageContent[page_elements \in Seq(ElementType)] ==
    LET texts == [i \in 1..Len(SelectSeq(page_elements, HasText)) |->
                      SelectSeq(page_elements, HasText)[i].text]
    IN  Strip[ReplaceNewlines[Join[texts, <<" ">>]]]

\* The contents of the page groups, in order, without the empty ones.
PageContents[groups \in Seq(Seq(ElementType))] ==
    SelectSeq([i \in 1..Len(groups) |-> PageContent[groups[i]]], NonEmptyStr)

\* _combine_elements_by_page without the sort: groupby over the input order.
CombineElementsByPageUnsorted(elements) == PageContents[GroupByPage[elements]]

CombineElementsByPage(elements) == PageContents[GroupByPage[SortedByPage[elements]]]

(***************************************************************************)
(* DocumentProcessor._should_chunk_content and _chunk_content.             *)
(***************************************************************************)

\* ProcessingConfig; custom_splitter is "None" or names a splitter.
ConfigType ==
    [chunk_size : Int, hi_res_pdf : BOOLEAN, infer_tables : BOOLEAN,
     custom_splitter : STRING, max_workers : Int, remove_headers : BOOLEAN,
     remove_references : BOOLEAN, filter_empty_elements : BOOLEAN,
     ocr_for_images : BOOLEAN, ocr_model : STRING]

ShouldChunkContent(content, chunk_size) == Len(Words[content]) > chunk_size

\* The locals of the default splitter: the chunks emitted so far, the
\* current bucket and its word count.
PackState == [chunks : Seq(Str), current_chunk : Seq(Str), current_count : Int]

\* One iteration of the loop over words.
PackStep[word \in Str, chunk_size \in Int, st \in PackState] ==
    LET n == Len(Words[word])
    IN  IF st.current_count + n > chunk_size
        THEN [chunks        |-> IF st.current_chunk # <<>>
                                THEN Append(st.chunks, Join[st.current_chunk, <<" ">>])
                                ELSE st.chunks,
              current_chunk |-> <<word>>,
              current_count |-> n]
        ELSE [chunks        |-> st.chunks,
              current_chunk |-> Append(st.current_chunk, word),
              current_count |-> st.current_count + n]

\* The whole loop.
PackWords[words \in Seq(Str), chunk_size \in Int, st \in PackState] ==
    IF words = <<>> THEN st
    ELSE PackWords[Tail(words), chunk_size, PackStep[Head(words), chunk_size, st]]

\* The flush after the loop: a non-empty bucket becomes the last chunk.
FlushCurrentChunk[st \in PackState] ==
    IF st.current_chunk # <<>>
    THEN Append(st.chunks, Join[st.current_chunk, <<" ">>])
    ELSE st.chunks

EmptyPackState == [chunks |-> <<>>, current_chunk |-> <<>>, current_count |-> 0]

\* A caller-supplied splitter is opaque.  Two stand for it: one that raises
\* and one that returns the text as a single chunk.
CustomSplitters == {"raises", "whole_text"}

\* _chunk_content without the flush after the loop.
ChunkContentNoFlush(content, chunk_size, config) ==
    IF config.custom_splitter = "raises" THEN [raised |-> TRUE, chunks |-> <<>>]
    ELSE IF config.custom_splitter = "whole_text"
    THEN [raised |-> FALSE, chunks |-> <<content>>]
    ELSE [raised |-> FALSE,
          chunks |-> PackWords[Words[content], chunk_size, EmptyPackState].chunks]

\* _chunk_content: [raised, chunks].  Only a custom splitter can raise.
ChunkContent(content, chunk_size, config) ==
    IF config.custom_splitter = "raises" THEN [raised |-> TRUE, chunks |-> <<>>]
    ELSE IF config.custom_splitter = "whole_text"
    THEN [raised |-> FALSE, chunks |-> <<content>>]
    ELSE [raised |-> FALSE,
          chunks |-> FlushCurrentChunk[PackWords[Words[content], chunk_size,
                                                 EmptyPackState]]]

(***************************************************************************)
(* DocumentProcessor._process_elements_to_document.                        *)
(***************************************************************************)

\* Document(page_content, **metadata); chunk_number is present only on the
\* documents of a page that was chunked.
Document ==
    [page_content : Str,
     metadata : [filename : Str, filetype : STRING, page_number : Int,
                 source : Str]
                \cup
                [filename : Str, filetype : STRING, page_number : Int,
                 chunk_number : Int, source : Str]]

\* The output units of one page: its 1-based position idx in page_contents
\* is the page_number written into the metadata.
PageDocuments[idx \in Int, content \in Str, source \in Str, doc_type \in STRING, config \in ConfigType] ==
    IF ShouldChunkContent(content, config.chunk_size)
    THEN LET chunks == ChunkContent(content, config.chunk_size, config).chunks
         IN  [chunk_idx \in 1..Len(chunks) |->
                 [page_content |-> chunks[chunk_idx],
                  metadata |-> [filename |-> PathName[source],
                                filetype |-> GetFiletype(doc_type),
                                page_number |-> idx,
                                chunk_number |-> chunk_idx,
                                source |-> source]]]
    ELSE <<[page_content |-> content,
            metadata |-> [filename |-> PathName[source],
                          filetype |-> GetFiletype(doc_type),
                          page_number |-> idx,
                          source |-> source]]>>

\* documents.extend over the pages, in order.
Concat[lists \in Seq(Seq(Document))] ==
    IF lists = <<>> THEN <<>> ELSE Head(lists) \o Concat[Tail(lists)]

\* The loop over page_contents: [raised, documents], raised when the
\* splitter raised on some page.
PagesToDocuments[page_contents \in Seq(Str), source \in Str, doc_type \in STRING, config \in ConfigType] ==
    LET raised == \E idx \in 1..Len(page_contents) :
                      /\ ShouldChunkContent(page_contents[idx], config.chunk_size)
                      /\ ChunkContent(page_contents[idx], config.chunk_size, config).raised
    IN  IF raised THEN [raised |-> TRUE, documents |-> <<>>]
        ELSE [raised |-> FALSE,
              documents |-> Concat[[idx \in 1..Len(page_contents) |->
                                       PageDocuments[idx, page_contents[idx], source,
                                                     doc_type, config]]]]

ProcessElementsToDocument(elements, source, doc_type, config) ==
    PagesToDocuments[CombineElementsByPage(elements), source, doc_type, config]

(***************************************************************************)
(* ProcessingConfig and the adapters' results.                             *)
(***************************************************************************)

\* The dataclass defaults.
DefaultConfig ==
    [chunk_size            |-> 500,
     hi_res_pdf            |-> TRUE,
     infer_tables          |-> FALSE,
     custom_splitter       |-> "None",
     max_workers           |-> 4,
     remove_headers        |-> FALSE,
     remove_references     |-> FALSE,
     filter_empty_elements |-> TRUE,
     ocr_for_images        |-> FALSE,
     ocr_model             |-> "tesseract"]

Element(text, category, id, parent_id, page_number) ==
    [has_text |-> TRUE, text |-> text, category |-> category, id |-> id,
     parent_id |-> parent_id, page_number |-> page_number, has_html |-> FALSE]

\* What an external partition function or the OCR capability does when it
\* is called: it raises, or returns.
AdapterOutcomes == {"raises", "returns"}

\* What a partition function returns: a blank element on page 1 and three
\* words on page 2, the last of them in a table.
PartitionedElements ==
    <<Element(<<"c"," ","d">>, "Title", "e1", "None", 2),
      Element(<<" ">>, "NarrativeText", "e2", "e1", 1),
      [Element(<<"e">>, "Table", "e3", "e1", 2) EXCEPT !.has_html = TRUE]>>

\* What OCRProcessor.extract_text returns.
OcrText == <<"c"," ","d","\n","e">>

\* _create_element_from_ocr: one Text element.  Its metadata is a plain
\* dict, so the later getattr(metadata, 'page_number', 1) and
\* getattr(metadata, 'parent_id', None) both read their defaults.
CreateElementFromOcr(text, file_path) ==
    <<Element(text, "UncategorizedText", "ocr", "None", 1)>>

HasHtml(el) == el.has_html

\* _get_elements: the elements it returns when the adapter it called ended
\* with outcome.  Whatever is raised inside is caught and gives [].
GetElements(file_path, config, ocr_processor_, outcome) ==
    LET strategy == GetElementsCall(file_path, config).strategy
    IN  IF outcome = "raises" THEN <<>>
        ELSE IF strategy = "ocr"
        THEN IF ocr_processor_ = "None" THEN <<>>
             ELSE CreateElementFromOcr(OcrText, file_path)
        ELSE IF strategy = "spreadsheet"
        THEN SelectSeq(PartitionedElements, HasHtml)
        ELSE PartitionedElements

(***************************************************************************)
(* State.                                                                  *)
(***************************************************************************)

VARIABLES
    input,          \* the sources handed to DocumentProcessor(...)
    caller_config,  \* the ProcessingConfig the caller hands to process
    pc,             \* where the caller is: start, ctor_raised, constructed,
                    \* submitting, collecting, returned
    sources,        \* self.sources
    doc_types,      \* self.doc_types
    config,         \* self.config
    ocr_processor,  \* self.ocr_processor: "None" or "OCRProcessor"
    futures,        \* future_to_source, in submission order
    results,        \* the results dict of process
    chunk_call,     \* a call of _chunk_content
    page_call,      \* a call of _process_elements_to_document
    filter_call     \* a call of _filter_elements

orch_vars == <<input, caller_config, pc, sources, doc_types, config, ocr_processor,
               futures, results>>

call_vars == <<chunk_call, page_call, filter_call>>

vars == <<orch_vars, call_vars>>

Range(seq) == {seq[i] : i \in 1..Len(seq)}

SeqsUpTo(S, n) == UNION {[1..k -> S] : k \in 0..n}

EmptyDict == [k \in {} |-> <<>>]

NoCall == [state |-> "idle"]

(***************************************************************************)
(* DocumentProcessor.__init__ and DocumentProcessor.process.               *)
(***************************************************************************)

\* __init__: from_file is applied to every source; the first ValueError
\* leaves the constructor, and no object exists.
Construct ==
    /\ pc = "start"
    /\ IF \E i \in 1..Len(input) : FromFile(input[i]) = ValueError
       THEN /\ pc' = "ctor_raised"
            /\ UNCHANGED <<sources, doc_types, ocr_processor>>
       ELSE /\ pc' = "constructed"
            /\ sources' = input
            /\ doc_types' = [s \in Range(input) |-> FromFile(s)]
            /\ ocr_processor' = "None"
    /\ UNCHANGED <<input, caller_config, config, futures, results, call_vars>>

\* _init_ocr_processor
InitOcrProcessor(config_, ocr_processor_) ==
    IF config_.ocr_for_images /\ ocr_processor_ = "None"
    THEN "OCRProcessor" ELSE ocr_processor_

\* process, up to the creation of the executor.
Process ==
    /\ pc = "constructed"
    /\ config' = caller_config
    /\ ocr_processor' = InitOcrProcessor(caller_config, ocr_processor)
    /\ results' = EmptyDict
    /\ futures' = <<>>
    /\ pc' = IF sources = <<>> THEN "collecting" ELSE "submitting"
    /\ UNCHANGED <<input, caller_config, sources, doc_types, call_vars>>

\* executor.submit(self._get_elements, source), one source after the other.
\* A future carries its source, its state, the adapter calls made for it,
\* how the adapter call ended, the elements _get_elements returned, and
\* whether the as_completed loop has handled it.
Submit ==
    /\ pc = "submitting"
    /\ futures' = Append(futures,
                         [source |-> sources[Len(futures) + 1], state |-> "pending",
                          calls |-> <<>>, adapter |-> "not called", elements |-> <<>>,
                          collected |-> FALSE])
    /\ pc' = IF Len(futures') = Len(sources) THEN "collecting" ELSE "submitting"
    /\ UNCHANGED <<input, caller_config, sources, doc_types, config, ocr_processor,
                   results, call_vars>>

Running == {i \in 1..Len(futures) : futures[i].state = "running"}

\* A pool thread takes the oldest queued task and enters _get_elements:
\* the adapter is chosen and called.
WorkerStart(i) ==
    /\ futures[i].state = "pending"
    /\ \A j \in 1..(i - 1) : futures[j].state # "pending"
    /\ Cardinality(Running) < config.max_workers
    /\ futures' = [futures EXCEPT
                      ![i].state = "running",
                      ![i].calls = Append(@, GetElementsCall(futures[i].source, config))]
    /\ UNCHANGED <<input, caller_config, pc, sources, doc_types, config, ocr_processor,
                   results, call_vars>>

\* The adapter call ends and _get_elements returns: the future is done.
WorkerFinish(i) ==
    /\ futures[i].state = "running"
    /\ \E outcome \in AdapterOutcomes :
           futures' = [futures EXCEPT
                          ![i].state = "done",
                          ![i].adapter = outcome,
                          ![i].elements = GetElements(futures[i].source, config,
                                                      ocr_processor, outcome)]
    /\ UNCHANGED <<input, caller_config, pc, sources, doc_types, config, ocr_processor,
                   results, call_vars>>

\* The loop body without the assignment of the except clause.
RecordResultSkipsFailure(results_, source, outcome) ==
    IF outcome.raised THEN results_
    ELSE [k \in DOMAIN results_ \cup {PathName[source]} |->
             IF k = PathName[source] THEN outcome.documents ELSE results_[k]]

\* The body of the as_completed loop for one source: the entry written
\* under Path(source).name, [] when filtering or chunking raised.
RecordResult(results_, source, outcome) ==
    [k \in DOMAIN results_ \cup {PathName[source]} |->
        IF k = PathName[source]
        THEN IF outcome.raised THEN <<>> ELSE outcome.documents
        ELSE results_[k]]

\* What the main thread computes from a completed future.
SourceOutcome(source, elements) ==
    ProcessElementsToDocument(FilterElements(elements, config), source,
                              doc_types[source], config)

\* as_completed yields a completed future; its result is filtered, turned
\* into documents and recorded.
Collect(i) ==
    /\ pc = "collecting"
    /\ futures[i].state = "done"
    /\ ~futures[i].collected
    /\ results' = RecordResult(results, futures[i].source,
                               SourceOutcome(futures[i].source, futures[i].elements))
    /\ futures' = [futures EXCEPT ![i].collected = TRUE]
    /\ UNCHANGED <<input, caller_config, pc, sources, doc_types, config, ocr_processor,
                   call_vars>>

\* A loop that ends as soon as one future has been handled.
LoopExhaustedAfterFirst(futures_) ==
    futures_ = <<>> \/ \E i \in 1..Len(futures_) : futures_[i].collected

\* The as_completed loop ends when it has yielded every future.
LoopExhausted(futures_) == \A i \in 1..Len(futures_) : futures_[i].collected

\* The with block is left and process returns results.
Return ==
    /\ pc = "collecting"
    /\ LoopExhausted(futures)
    /\ pc' = "returned"
    /\ UNCHANGED <<input, caller_config, sources, doc_types, config, ocr_processor,
                   futures, results, call_vars>>

Next ==
    \/ Construct
    \/ Process
    \/ Submit
    \/ \E i \in 1..Len(futures) : WorkerStart(i)
    \/ \E i \in 1..Len(futures) : WorkerFinish(i)
    \/ \E i \in 1..Len(futures) : Collect(i)
    \/ Return

(***************************************************************************)
(* The batches and configurations explored.                                *)
(***************************************************************************)

MaxSources == 3

\* Two PDFs with the same file name in different directories, an image and
\* a file of an unsupported type.
BatchSources ==
    {<<"a","/","x",".","p","d","f">>,
     <<"b","/","x",".","p","d","f">>,
     <<"i",".","p","n","g">>,
     <<"x",".","z","i","p">>}

BatchConfigs ==
    {[DefaultConfig EXCEPT !.chunk_size = 2, !.ocr_for_images = ocr,
                           !.max_workers = workers, !.custom_splitter = splitter] :
        ocr \in BOOLEAN, workers \in {1, 2}, splitter \in {"None", "raises"}}

OrchInit ==
    /\ pc = "start"
    /\ sources = <<>>
    /\ doc_types = EmptyDict
    /\ config = DefaultConfig
    /\ ocr_processor = "None"
    /\ futures = <<>>
    /\ results = EmptyDict

CallsIdle ==
    /\ chunk_call = NoCall
    /\ page_call = NoCall
    /\ filter_call = NoCall

Init ==
    /\ input \in SeqsUpTo(BatchSources, MaxSources)
    /\ caller_config \in BatchConfigs
    /\ OrchInit
    /\ CallsIdle

Spec == Init /\ [][Next]_vars

\* Pool threads run, adapter calls end, and the main thread proceeds.
Fairness ==
    /\ WF_vars(Process)
    /\ WF_vars(Submit)
    /\ WF_vars(\E i \in 1..Len(futures) : WorkerStart(i))
    /\ WF_vars(\E i \in 1..Len(futures) : WorkerFinish(i))
    /\ WF_vars(\E i \in 1..Len(futures) : Collect(i))
    /\ WF_vars(Return)

FairSpec == Spec /\ Fairness

(***************************************************************************)
(* Format dispatch over a wider range of single sources.                   *)
(***************************************************************************)

DispatchSources ==
    {<<"a",".","p","d","f">>,
     <<"A",".","P","D","F">>,
     <<"p","/","x",".","p","d","f">>,
     <<"r",".","x","l","s","x">>,
     <<"r",".","x","l","s">>,
     <<"p",".","h","t","m","l">>,
     <<"i",".","p","n","g">>,
     <<"i",".","j","p","g">>,
     <<"i",".","j","p","e","g">>,
     <<"i",".","t","i","f","f">>,
     <<"i",".","b","m","p">>,
     <<"i",".","h","e","i","c">>,
     <<"m",".","e","m","l">>,
     <<"m",".","m","s","g">>,
     <<"d",".","d","o","c","x">>,
     <<"d",".","d","o","c">>,
     <<"s",".","p","p","t","x">>,
     <<"s",".","p","p","t">>,
     <<"n",".","m","d">>,
     <<"n",".","t","x","t">>,
     <<"c",".","c","s","v">>,
     <<"h","t","t","p",":","/","/","e",".","i","o">>,
     <<"h","t","t","p","s",":","/","/","e",".","i","o","/","r",".","p","d","f">>,
     <<"h","t","t","p",":","/","/","e",".","i","o","/","i",".","p","n","g">>,
     <<"w","w","w",".","e",".","i","o">>,
     <<"w","w","w","n",".","t","x","t">>,
     <<"h","t","t","p","d",".","x","m","l">>,
     <<"x",".","z","i","p">>,
     <<"n","o","e","x","t">>,
     <<".","p","d","f">>}

DispatchConfigs ==
    {[DefaultConfig EXCEPT !.ocr_for_images = ocr, !.hi_res_pdf = hi_res,
                           !.infer_tables = tables] :
        ocr \in BOOLEAN, hi_res \in BOOLEAN, tables \in BOOLEAN}

DispatchInit ==
    /\ input \in {<<source>> : source \in DispatchSources}
    /\ caller_config \in DispatchConfigs
    /\ OrchInit
    /\ CallsIdle

DispatchSpec == DispatchInit /\ [][Next]_vars

(***************************************************************************)
(* _chunk_content with the default splitter, on every short text.          *)
(***************************************************************************)

MaxContentLen == 6

MaxChunkSize == 3

ContentAlphabet == {"a", "b", " ", "\n"}

OrchIdle ==
    /\ input = <<>>
    /\ caller_config = DefaultConfig
    /\ pc = "idle"
    /\ sources = <<>>
    /\ doc_types = EmptyDict
    /\ config = DefaultConfig
    /\ ocr_processor = "None"
    /\ futures = <<>>
    /\ results = EmptyDict

ChunkInit ==
    /\ chunk_call \in {[state |-> "called", content |-> content, chunk_size |-> size,
                        chunks |-> <<>>] :
                          content \in SeqsUpTo(ContentAlphabet, MaxContentLen),
                          size \in 1..MaxChunkSize}
    /\ page_call = NoCall
    /\ filter_call = NoCall
    /\ OrchIdle

ChunkReturn ==
    /\ chunk_call.state = "called"
    /\ chunk_call' = [chunk_call EXCEPT
                         !.state = "returned",
                         !.chunks = ChunkContent(chunk_call.content, chunk_call.chunk_size,
                                                 DefaultConfig).chunks]
    /\ UNCHANGED <<orch_vars, page_call, filter_call>>

ChunkSpec == ChunkInit /\ [][ChunkReturn]_vars

(***************************************************************************)
(* _process_elements_to_document on every short element list.              *)
(***************************************************************************)

MaxPageElements == 4

PageElement(text, page_number) == Element(text, "NarrativeText", "e", "None", page_number)

\* Elements on pages 1, 3 and 5: words, blank text, empty text and an
\* element without a text attribute.
PageElements ==
    {PageElement(<<"a">>, 1), PageElement(<<"b">>, 1), PageElement(<<>>, 1),
     PageElement(<<"a">>, 3), PageElement(<<" ","\n">>, 3),
     [PageElement(<<>>, 3) EXCEPT !.has_text = FALSE],
     PageElement(<<"a">>, 5), PageElement(<<"b">>, 5), PageElement(<<"c"," ","d">>, 5)}

PageSource == <<"p","/","x",".","p","d","f">>

PageConfig == [DefaultConfig EXCEPT !.chunk_size = 2]

PageInit ==
    /\ page_call \in {[state |-> "called", elements |-> elements,
                       page_contents |-> <<>>, documents |-> <<>>] :
                         elements \in SeqsUpTo(PageElements, MaxPageElements)}
    /\ chunk_call = NoCall
    /\ filter_call = NoCall
    /\ OrchIdle

PageReturn ==
    /\ page_call.state = "called"
    /\ page_call' = [page_call EXCEPT
                        !.state = "returned",
                        !.page_contents = CombineElementsByPage(page_call.elements),
                        !.documents = ProcessElementsToDocument(
                                          page_call.elements, PageSource,
                                          FromFile(PageSource), PageConfig).documents]
    /\ UNCHANGED <<orch_vars, chunk_call, filter_call>>

PageSpec == PageInit /\ [][PageReturn]_vars

(***************************************************************************)
(* _filter_elements on every short element list and every toggle.          *)
(***************************************************************************)

MaxFilterElements == 3

\* Two "References" titles, their children, a grandchild, a header, a
\* blank element, an element without a text attribute, and others.  No
\* element is its own parent.
FilterUniverse ==
    {Element(<<" ","R","e","f","e","r","e","n","c","e","s","\n">>, "Title", "e1", "None", 1),
     Element(<<"R","E","F","E","R","E","N","C","E","S">>, "Title", "e2", "None", 1),
     Element(<<"x">>, "NarrativeText", "e3", "e1", 1),
     Element(<<"y">>, "NarrativeText", "e4", "e2", 1),
     Element(<<"z">>, "NarrativeText", "e5", "e3", 1),
     Element(<<"h">>, "Header", "e6", "e1", 1),
     Element(<<"R","e","f","e","r","e","n","c","e","s">>, "NarrativeText", "e7", "None", 1),
     Element(<<" ">>, "NarrativeText", "e8", "e1", 1),
     [Element(<<>>, "CheckBox", "e9", "e1", 1) EXCEPT !.has_text = FALSE],
     Element(<<"w">>, "Title", "e10", "None", 1)}

FilterConfigs ==
    {[DefaultConfig EXCEPT !.filter_empty_elements = empty, !.remove_headers = headers,
                           !.remove_references = references] :
        empty \in BOOLEAN, headers \in BOOLEAN, references \in BOOLEAN}

FilterInit ==
    /\ filter_call \in {[state |-> "called", elements |-> elements, config |-> config_,
                         filtered |-> <<>>] :
                           elements \in SeqsUpTo(FilterUniverse, MaxFilterElements),
                           config_ \in FilterConfigs}
    /\ chunk_call = NoCall
    /\ page_call = NoCall
    /\ OrchIdle

FilterReturn ==
    /\ filter_call.state = "called"
    /\ filter_call' = [filter_call EXCEPT
                          !.state = "returned",
                          !.filtered = FilterElements(filter_call.elements,
                                                      filter_call.config)]
    /\ UNCHANGED <<orch_vars, chunk_call, page_call>>

FilterSpec == FilterInit /\ [][FilterReturn]_vars

(***************************************************************************)
(* Properties.                                                             *)
(***************************************************************************)

SourceNames == {PathName[sources[i]] : i \in 1..Len(sources)}

DistinctSources == \A i, j \in 1..Len(sources) : i # j => sources[i] # sources[j]

\* The source of future i failed: its adapter raised, or a later stage did.
FailedSource(i) ==
    \/ futures[i].adapter = "raises"
    \/ SourceOutcome(futures[i].source, futures[i].elements).raised

\* The output units the pipeline of future i produces from its own elements.
OwnDocuments(i) ==
    IF FailedSource(i) THEN <<>>
    ELSE SourceOutcome(futures[i].source, futures[i].elements).documents

\* C1: when process returns, the keys of the returned mapping are exactly
\* the file names (last path components) of the input sources, whichever
\* sources failed.
C1_KeySetIsSourceNames ==
    pc = "returned" => DOMAIN results = SourceNames

\* C1 witness: a returned batch of several file names in which one source
\* failed and another produced output.
C1_Witness ==
    /\ pc = "returned"
    /\ Cardinality(SourceNames) >= 2
    /\ \E i \in 1..Len(futures) : FailedSource(i)
    /\ \E k \in DOMAIN results : results[k] # <<>>

\* C2: when process returns for pairwise-distinct sources, a source that
\* failed maps to the empty list and every other source maps to the output
\* units of its own pipeline.
C2_FailureIsolation ==
    (pc = "returned" /\ DistinctSources) =>
        \A i \in 1..Len(futures) :
            /\ PathName[futures[i].source] \in DOMAIN results
            /\ results[PathName[futures[i].source]] = OwnDocuments(i)

\* C3: the chunks of the default splitter, joined with single spaces and
\* split on whitespace, are the page's word sequence; no chunk is empty and
\* none has more than chunk_size words.
C3_ChunkingLaw ==
    chunk_call.state = "returned" =>
        /\ Words[Join[chunk_call.chunks, <<" ">>]] = Words[chunk_call.content]
        /\ \A i \in 1..Len(chunk_call.chunks) :
               /\ chunk_call.chunks[i] # <<>>
               /\ Len(Words[chunk_call.chunks[i]]) >= 1
               /\ Len(Words[chunk_call.chunks[i]]) <= chunk_call.chunk_size

\* C3 witness: a text with a newline next to another separator that was
\* packed into a full chunk and a last one that is not full.
C3_Witness ==
    /\ chunk_call.state = "returned"
    /\ chunk_call.chunk_size = 2
    /\ Len(chunk_call.chunks) = 2
    /\ Len(Words[chunk_call.chunks[1]]) = 2
    /\ Len(Words[chunk_call.chunks[2]]) = 1
    /\ \E i \in 1..(Len(chunk_call.content) - 1) :
           /\ chunk_call.content[i] \in Whitespace
           /\ chunk_call.content[i + 1] = "\n"

KnownExtensions == {DocumentType[m] : m \in DOMAIN DocumentType}

\* The source is no URL and the extension of its file name is no known one.
MatchesNoKnownFormat(source) ==
    /\ ~StartsWithAny(Lower[source], UrlPrefixes)
    /\ LStripChar[Lower[PathSuffix[source]], "."] \notin KnownExtensions

\* C4: the constructor raises exactly when some source of the list matches
\* no known format, and then no processor exists and nothing has run: no
\* source list, no cached types, no OCR processor, no future, no result.
C4_UnsupportedRaisesAtConstruction ==
    /\ pc # "start" =>
           (pc = "ctor_raised" <=> \E i \in 1..Len(input) : MatchesNoKnownFormat(input[i]))
    /\ pc = "ctor_raised" =>
           /\ sources = <<>>
           /\ doc_types = EmptyDict
           /\ ocr_processor = "None"
           /\ futures = <<>>
           /\ results = EmptyDict

\* C4 witness: the constructor raised for a list that also holds a supported
\* image, with a configuration that asks for OCR.
C4_Witness ==
    /\ pc = "ctor_raised"
    /\ caller_config.ocr_for_images
    /\ \E i \in 1..Len(input) : ~MatchesNoKnownFormat(input[i])
                                  /\ EndsWithAny(Lower[input[i]], ImageSuffixes)

\* C5: for pairwise-distinct source identifiers the returned mapping has as
\* many entries as there are sources, and each source's entry holds that
\* source's own output units.
C5_OneEntryPerSource ==
    (pc = "returned" /\ DistinctSources) =>
        /\ Cardinality(DOMAIN results) = Len(sources)
        /\ \A i \in 1..Len(futures) :
               LET key == PathName[futures[i].source]
               IN  key \in DOMAIN results /\ results[key] = OwnDocuments(i)

IsImage(p) == EndsWithAny(Lower[p], ImageSuffixes)

IsPdf(p) == EndsWith[Lower[p], PdfSuffix]

IsSpreadsheet(p) == EndsWithAny(Lower[p], SpreadsheetSuffixes)

IsWeb(p) == StartsWithAny(Lower[p], WebPrefixes) \/ EndsWith[Lower[p], HtmlSuffix]

IsEmail(p) == EndsWithAny(Lower[p], EmailSuffixes)

IsOffice(p) == EndsWithAny(Lower[p], OfficeSuffixes)

\* The strategy st is the first of the eight whose predicate holds of p.
FirstMatch(p, ocr, st) ==
    /\ (IsImage(p) /\ ocr) => st = "ocr"
    /\ (~(IsImage(p) /\ ocr) /\ IsPdf(p)) => st = "pdf"
    /\ (~(IsImage(p) /\ ocr) /\ ~IsPdf(p) /\ IsSpreadsheet(p)) => st = "spreadsheet"
    /\ (~(IsImage(p) /\ ocr) /\ ~IsPdf(p) /\ ~IsSpreadsheet(p) /\ IsWeb(p)) => st = "web"
    /\ (~ocr /\ ~IsPdf(p) /\ ~IsSpreadsheet(p) /\ ~IsWeb(p) /\ IsImage(p)) => st = "image"
    /\ (~IsImage(p) /\ ~IsPdf(p) /\ ~IsSpreadsheet(p) /\ ~IsWeb(p) /\ IsEmail(p))
           => st = "email"
    /\ (~IsImage(p) /\ ~IsPdf(p) /\ ~IsSpreadsheet(p) /\ ~IsWeb(p) /\ ~IsEmail(p)
           /\ IsOffice(p)) => st = "office"
    /\ (~IsImage(p) /\ ~IsPdf(p) /\ ~IsSpreadsheet(p) /\ ~IsWeb(p) /\ ~IsEmail(p)
           /\ ~IsOffice(p)) => st = "generic"
    /\ st = "image" => ~ocr
    /\ st \in {"ocr", "pdf", "spreadsheet", "web", "image", "email", "office", "generic"}

\* C6: no source has more than one adapter call, and once _get_elements has
\* run for a source it has made exactly one, to the first strategy whose
\* predicate matches in the fixed order; an image goes to OCR whenever OCR
\* is enabled and to the generic image strategy only when it is disabled.
C6_FirstMatchingStrategy ==
    \A i \in 1..Len(futures) :
        /\ Len(futures[i].calls) <= 1
        /\ futures[i].state \in {"running", "done"} =>
               /\ Len(futures[i].calls) = 1
               /\ FirstMatch(futures[i].source, config.ocr_for_images,
                             futures[i].calls[1].strategy)

\* C6 witness: an image source with OCR enabled whose single call went to
\* the OCR strategy.
C6_Witness ==
    \E i \in 1..Len(futures) :
        /\ futures[i].state = "done"
        /\ IsImage(futures[i].source)
        /\ config.ocr_for_images
        /\ Len(futures[i].calls) = 1
        /\ futures[i].calls[1].strategy = "ocr"

RECURSIVE Ascending(_)
Ascending(S) ==
    IF S = {} THEN <<>> ELSE <<SetMin(S)>> \o Ascending(S \ {SetMin(S)})

\* The text of page number p: the texts of all elements of that page, in
\* input order.
TextOfPage(elements, p) ==
    LET on_page(el) == el.page_number = p /\ el.has_text /\ el.text # <<>>
        chosen == SelectSeq(elements, on_page)
    IN  Strip[ReplaceNewlines[Join[[i \in 1..Len(chosen) |-> chosen[i].text], <<" ">>]]]

\* One text per page number, ascending, the empty ones left out.
ExpectedPages(elements) ==
    LET numbers == Ascending({elements[i].page_number : i \in 1..Len(elements)})
    IN  SelectSeq([k \in 1..Len(numbers) |-> TextOfPage(elements, numbers[k])], NonEmptyStr)

DocumentsOfPage(documents, idx) ==
    LET on_page(doc) == doc.metadata.page_number = idx
        chosen == SelectSeq(documents, on_page)
    IN  [i \in 1..Len(chosen) |-> chosen[i].page_content]

\* C8: the pages are one text per page number, ascending, each the texts of
\* all elements of that number in input order, blank pages left out; every
\* output unit's page_number is the position of its page in that list, the
\* units are in page order and those of a page carry the page's words.
C8_PageGrouping ==
    page_call.state = "returned" =>
        /\ page_call.page_contents = ExpectedPages(page_call.elements)
        /\ \A d \in 1..Len(page_call.documents) :
               page_call.documents[d].metadata.page_number \in 1..Len(page_call.page_contents)
        /\ \A d \in 1..(Len(page_call.documents) - 1) :
               page_call.documents[d].metadata.page_number
                   <= page_call.documents[d + 1].metadata.page_number
        /\ \A idx \in 1..Len(page_call.page_contents) :
               Words[Join[DocumentsOfPage(page_call.documents, idx), <<" ">>]]
                   = Words[page_call.page_contents[idx]]

\* C8 witness: elements of pages 5, 1, 5, 3 in that order, page 3 blank, so
\* that the units of page 5 carry page_number 2.
C8_Witness ==
    /\ page_call.state = "returned"
    /\ [i \in 1..Len(page_call.elements) |-> page_call.elements[i].page_number]
           = <<5, 1, 5, 3>>
    /\ Len(page_call.page_contents) = 2
    /\ page_call.page_contents[2] = <<"a"," ","b">>
    /\ \E d \in 1..Len(page_call.documents) :
           page_call.documents[d].metadata.page_number = 2

\* The elements of seq at the positions in keep, in order.
RECURSIVE SubsequenceAt(_, _)
SubsequenceAt(seq, keep) ==
    IF seq = <<>> THEN <<>>
    ELSE SubsequenceAt(SubSeq(seq, 1, Len(seq) - 1), keep)
             \o (IF Len(seq) \in keep THEN <<seq[Len(seq)]>> ELSE <<>>)

\* Positions of given that survive the empty and header filters of cfg.
Survivors(given, cfg) ==
    {i \in 1..Len(given) :
        /\ cfg.filter_empty_elements =>
               (given[i].has_text /\ Strip[given[i].text] # <<>>)
        /\ cfg.remove_headers => given[i].category # "Header"}

\* Positions of the surviving "References" titles.
ReferenceTitles(given, cfg) ==
    {i \in Survivors(given, cfg) :
        /\ given[i].has_text
        /\ Lower[Strip[given[i].text]] = ReferencesText
        /\ given[i].category = "Title"}

\* The lookup raises when a surviving element has no text attribute.
LookupRaises(given, cfg) == \E i \in Survivors(given, cfg) : ~given[i].has_text

\* Positions the reference step drops.
ReferenceChildren(given, cfg) ==
    IF LookupRaises(given, cfg) \/ ReferenceTitles(given, cfg) = {} THEN {}
    ELSE {i \in Survivors(given, cfg) :
             given[i].parent_id = given[SetMin(ReferenceTitles(given, cfg))].id}

\* C9: with remove_references enabled the output is the input restricted to
\* the survivors of the empty and header filters minus the direct children
\* of the first surviving "References" title, in input order; the title
\* itself is kept; with no such title, or when the lookup raises, the step
\* removes nothing.
C9_ReferenceFilter ==
    (filter_call.state = "returned" /\ filter_call.config.remove_references) =>
        LET given == filter_call.elements
            cfg == filter_call.config
        IN  /\ filter_call.filtered
                   = SubsequenceAt(given, Survivors(given, cfg) \ ReferenceChildren(given, cfg))
            /\ ReferenceChildren(given, cfg) # {} =>
                   SetMin(ReferenceTitles(given, cfg)) \notin ReferenceChildren(given, cfg)

\* C9 witness: two "References" titles, the first one's child dropped.
C9_Witness ==
    /\ filter_call.state = "returned"
    /\ filter_call.config.remove_references
    /\ Cardinality(ReferenceTitles(filter_call.elements, filter_call.config)) = 2
    /\ ReferenceChildren(filter_call.elements, filter_call.config) # {}
    /\ Len(filter_call.filtered) = Len(filter_call.elements) - 1

\* The format family of a cached document type.
TypeFamily(doc_type) ==
    IF doc_type = "PDF" THEN "pdf"
    ELSE IF doc_type \in {"XLSX", "XLS"} THEN "spreadsheet"
    ELSE IF doc_type = "HTML" THEN "web"
    ELSE IF doc_type \in {"PNG", "JPEG", "JPG", "TIFF", "BMP", "HEIC"} THEN "image"
    ELSE IF doc_type \in {"EML", "MSG"} THEN "email"
    ELSE IF doc_type \in {"DOC", "DOCX", "PPT", "PPTX"} THEN "office"
    ELSE "generic"

\* The format family of an extraction strategy.
StrategyFamily(strategy) == IF strategy = "ocr" THEN "image" ELSE strategy

\* C10: the strategy _get_elements selects for a source is of the format
\* family cached for that source at construction.
C10_TypingAgreesWithDispatch ==
    \A i \in 1..Len(futures) :
        futures[i].calls # <<>> =>
            StrategyFamily(futures[i].calls[1].strategy)
                = TypeFamily(doc_types[futures[i].source])

=============================================================================
